---- MODULE Spec2Model ----
(***************************************************************************)
(* Occupation recommender (RIASEC interest scores against a catalog).     *)
(*                                                                         *)
(* The repository holds three revisions of the same component:            *)
(*   "A"  src/unnamed/part_001                  plain cosine, no filter    *)
(*   "B"  src/components/job-recommendation.tsx weighted cosine, filter    *)
(*   "C"  src/unnamed/part_000                  hybrid metric, filter      *)
(*                                                                         *)
(* Numbers.  Scores are integers (points).  Every other real number of    *)
(* the program is kept in fixed point, in thousandths (SCALE): a          *)
(* normalised score, a similarity, a mean.  Square roots are taken with   *)
(* guard bits and a quotient is rounded to the nearest thousandth, so the *)
(* value a real-number evaluation gives is reproduced to 0.001.  A value  *)
(* is a record [t, v]: t = "num" with the number v, t = "nan" for NaN,    *)
(* t = "null" for an absent catalog score.  Every division by zero in the *)
(* source is 0/0.  A catalog number at the end of the double range (1e308)*)
(* is t = "huge": sums of such numbers overflow to an infinity, and       *)
(* t = "-inf" is the value -Infinity.                                     *)
(***************************************************************************)
EXTENDS Integers, Sequences, FiniteSets

VARIABLES
    rev,                  \* the revision of the component that is running: "A", "B" or "C"
    userScores,           \* useState: the six user scores
    inputValues,          \* useState: the six input texts
    jobScores,            \* useState: the loaded catalog
    recommendations,      \* useState: the list shown in the table
    error,                \* useState: the error message, NoError for null
    trendInterpretation,  \* useState: the narrative
    isLoading,            \* useState (revisions B and C): the loading flag
    results,              \* local of calculateRecommendations: the sorted list of its last run
    mounted,              \* whether the mount effect has run
    inflight,             \* loadJobScores invocations whose fetch has not settled
    lastLoad,             \* the load that settled last: what its fetch gave and how it ended
    loads,                \* number of loadJobScores invocations so far
    edits,                \* number of handleScoreChange invocations so far
    argA,                 \* function harness: the user vector passed in
    argB,                 \* function harness: the occupation vector passed in
    fn,                   \* function harness: the function applied ("" before the call)
    ret                   \* function harness: the value returned

stateVars == <<userScores, inputValues, jobScores, recommendations, error,
               trendInterpretation, isLoading, results>>

ctlVars == <<mounted, inflight, lastLoad, loads, edits>>

simVars == <<argA, argB, fn, ret>>

vars == <<rev, stateVars, ctlVars, simVars>>

----------------------------------------------------------------------------
(* Values *)

SCALE == 1000

Null == [t |-> "null", v |-> 0]
NaN == [t |-> "nan", v |-> 0]
Num(x) == [t |-> "num", v |-> x]

\* the catalog number 1e308, and the value -Infinity (ordered below every number)
Huge == [t |-> "huge", v |-> 0]
NegInf == [t |-> "-inf", v |-> -1000000]

IsNum(x) == x.t = "num"
IsNaN(x) == x.t = "nan"

NCAT == 6
Idx == 1..NCAT

categories == <<"realistic", "investigative", "artistic", "social", "enterprising", "conventional">>

RECURSIVE SumOver(_, _)
\* Array.prototype.reduce((sum, x) => sum + f(x), 0) over the index set S
SumOver(f, S) ==
    IF S = {} THEN 0
    ELSE LET i == CHOOSE j \in S : TRUE IN f[i] + SumOver(f, S \ {i})

Abs(x) == IF x < 0 THEN -x ELSE x

\* an occupation whose six scores are all 1e308
AllHuge == [i \in Idx |-> Huge]

----------------------------------------------------------------------------
(* Fixed-point arithmetic *)

TwoTo20 == 1048576
TwoTo28 == 268435456

RECURSIVE ISqrtBits(_, _, _)
\* largest r with r*r <= x, built bit by bit (x < 2^30)
ISqrtBits(x, r, bit) ==
    IF bit = 0 THEN r
    ELSE IF (r + bit) * (r + bit) <= x THEN ISqrtBits(x, r + bit, bit \div 2)
         ELSE ISqrtBits(x, r, bit \div 2)

RECURSIVE GuardScale(_, _)
\* the factor m (a power of two) with 2^28 <= x*m*m < 2^30, for 0 < x < 2^30
GuardScale(x, m) ==
    IF x < TwoTo28 THEN GuardScale(4 * x, 2 * m) ELSE m

\* Math.sqrt(x) for an integer x >= 0, as the pair (root * m, m)
Sqrt(x) ==
    IF x = 0 THEN [r |-> 0, m |-> 1]
    ELSE LET m == GuardScale(x, 1)
         IN [r |-> ISqrtBits(x * m * m, 0, 16384), m |-> m]

RECURSIVE Reduce(_, _)
\* halves numerator and denominator together until both are below 2^20
Reduce(n, d) ==
    IF n >= TwoTo20 \/ d >= TwoTo20 THEN Reduce(n \div 2, d \div 2)
    ELSE <<n, d>>

\* n / d rounded to the nearest integer, halves away from zero (d > 0)
RoundDiv(n, d) ==
    LET q == (2 * Abs(n) + d) \div (2 * d)
    IN IF n < 0 THEN -q ELSE q

\* n / d in thousandths, rounded to nearest; 0/0 is NaN (d = 0 only with n = 0)
Quot(n, d) ==
    IF d = 0 THEN NaN
    ELSE LET p == Reduce(Abs(n), d)
             q == RoundDiv(p[1] * SCALE, p[2])
         IN Num(IF n < 0 THEN -q ELSE q)

\* dot / (magnitudeA * magnitudeB), the magnitudes being square roots
QuotMag(dot, magA, magB) ==
    Quot(dot * magA.m * magB.m, magA.r * magB.r)

\* JavaScript  x || 0  on a number: NaN and 0 are falsy
OrZero(x) == IF IsNaN(x) THEN Num(0) ELSE x

Min(S) == CHOOSE x \in S : \A y \in S : x <= y
Max(S) == CHOOSE x \in S : \A y \in S : x >= y

----------------------------------------------------------------------------
(* Score normaliser *)

\* the numbers of a vector that are not null (six scores of 1e308 are six
\* equal numbers: min = max, and (score - min) / (max - min) is 0/0)
validScores(scores) == {scores[i].v : i \in {j \in Idx : scores[j] # Null}}

\* revision B: no guard for min = max, so (score - min) / 0 is 0/0
normalizeScoresB(scores) ==
    LET valid == validScores(scores)
    IN [i \in Idx |->
          IF scores[i] = Null THEN Num(0)
          ELSE Quot(scores[i].v - Min(valid), Max(valid) - Min(valid))]

\* revision C: min === max maps every entry (absent ones too) to 1; with no
\* present entry min is Infinity and max is -Infinity, which are not equal
normalizeScoresC(scores) ==
    LET valid == validScores(scores)
    IN IF valid # {} /\ Min(valid) = Max(valid)
       THEN [i \in Idx |-> Num(SCALE)]
       ELSE [i \in Idx |->
               IF scores[i] = Null THEN Num(0)
               ELSE Quot(scores[i].v - Min(valid), Max(valid) - Min(valid))]

----------------------------------------------------------------------------
(* Similarity engine *)

\* weights, in tenths
WUNIT == 10
weightsB == <<12, 11, 10, 10, 9, 8>>
weightsC == <<10, 10, 10, 10, 10, 10>>

\* indices kept by  .filter(([, bVal]) => bVal !== null)
validPairs(b) == {i \in Idx : b[i] # Null}

\* revision A: cosine over the raw scores at the present indices; with six
\* scores of 1e308 magnitudeB is Infinity and dotProduct is Infinity or 0, the
\* quotient is NaN and  || 0  makes it 0
cosineSimilarity(a, b) ==
    LET valid == validPairs(b)
        dotProduct == SumOver([i \in Idx |-> a[i].v * b[i].v], valid)
        magnitudeA == Sqrt(SumOver([i \in Idx |-> a[i].v * a[i].v], valid))
        magnitudeB == Sqrt(SumOver([i \in Idx |-> b[i].v * b[i].v], valid))
    IN IF b = AllHuge THEN OrZero(NaN)
       ELSE OrZero(QuotMag(dotProduct, magnitudeA, magnitudeB))

\* the filter of weightedCosineSimilarity runs on the normalised occupation vector
validPairsB(b) == validPairs(normalizeScoresB(b))
validPairsC(b) == validPairs(normalizeScoresC(b))

\* the three reductions of weightedCosineSimilarity over the index set valid;
\* a NaN term makes a sum NaN
WeightedTerms(na, nb, w, valid) ==
    LET anyNaN == \E i \in valid : IsNaN(na[i]) \/ IsNaN(nb[i])
    IN [nan |-> anyNaN,
        dot |-> IF anyNaN THEN 0
                ELSE WUNIT * SumOver([i \in Idx |-> na[i].v * nb[i].v * w[i]], valid),
        sqA |-> IF anyNaN THEN 0
                ELSE SumOver([i \in Idx |-> na[i].v * na[i].v * w[i] * w[i]], valid),
        sqB |-> IF anyNaN THEN 0
                ELSE SumOver([i \in Idx |-> nb[i].v * nb[i].v * w[i] * w[i]], valid)]

\* revision B over the index set valid: skewed weights, no special cases, no clamp
weightedCosineOverB(a, b, valid) ==
    LET t == WeightedTerms(normalizeScoresB(a), normalizeScoresB(b), weightsB, valid)
    IN IF t.nan THEN Num(0)
       ELSE OrZero(QuotMag(t.dot, Sqrt(t.sqA), Sqrt(t.sqB)))

weightedCosineSimilarityB(a, b) == weightedCosineOverB(a, b, validPairsB(b))

\* revision C over the index set valid: uniform weights, zero-magnitude cases,
\* clamp to [-1, 1]
weightedCosineOverC(a, b, valid) ==
    LET t == WeightedTerms(normalizeScoresC(a), normalizeScoresC(b), weightsC, valid)
        magnitudeA == Sqrt(t.sqA)
        magnitudeB == Sqrt(t.sqB)
        q == QuotMag(t.dot, magnitudeA, magnitudeB)
    IN IF valid = {} THEN Num(0)
       ELSE IF magnitudeA.r = 0 /\ magnitudeB.r = 0 THEN Num(SCALE)
       ELSE IF magnitudeA.r = 0 \/ magnitudeB.r = 0 THEN Num(0)
       ELSE Num(Min({Max({q.v, -SCALE}), SCALE}))

weightedCosineSimilarityC(a, b) == weightedCosineOverC(a, b, validPairsC(b))

\* revision C: 0.7 * weighted cosine + 0.3 * (1 - mean |a - b| / 100), the
\* mean taken over the present raw scores; with none present it is 0/0;
\* with six scores of 1e308 the sum of the differences overflows to Infinity
\* and the result is -Infinity
combinedSimilarity(a, b) ==
    LET cosineSim == weightedCosineSimilarityC(a, b)
        valid == validPairs(b)
        sumDifference == SumOver([i \in Idx |-> Abs(a[i].v - b[i].v)], valid)
        avgPerCent == Quot(sumDifference, 100 * Cardinality(valid))
    IN IF b = AllHuge THEN NegInf
       ELSE IF IsNaN(avgPerCent) THEN NaN
       ELSE Num(RoundDiv(7 * cosineSim.v + 3 * (SCALE - avgPerCent.v), 10))

\* the metric each revision's calculateRecommendations calls
similarityOf(r, a, b) ==
    CASE r = "A" -> cosineSimilarity(a, b)
      [] r = "B" -> weightedCosineSimilarityB(a, b)
      [] r = "C" -> combinedSimilarity(a, b)

----------------------------------------------------------------------------
(* Trend summariser *)

RECURSIVE SeqSum(_)
SeqSum(s) == IF s = <<>> THEN 0 ELSE Head(s) + SeqSum(Tail(s))

Squares(s) == [k \in 1..Len(s) |-> s[k] * s[k]]

\* the standard deviation of thousandths, exactly: sqrt(sq) / n thousandths,
\* sq = n * sum(v^2) - sum(v)^2 (population variance, divided by n)
calculateStandardDeviation(values) ==
    IF Len(values) = 0 THEN [sq |-> 0, n |-> 1]
    ELSE [sq |-> Len(values) * SeqSum(Squares(values)) - SeqSum(values) * SeqSum(values),
          n |-> Len(values)]

\* stdDeviation < t, t in thousandths
StdBelow(std, t) == std.sq < (t * std.n) * (t * std.n)

\* toFixed(2) of the standard deviation, in hundredths
StdFixed2(std) ==
    LET root == Sqrt(std.sq) IN RoundDiv(root.r, root.m * std.n * 10)

Narrative(kind, avg, std, interest, category, score, band, spread) ==
    [kind |-> kind, avg |-> avg, std |-> std, interest |-> interest,
     category |-> category, score |-> score, band |-> band, spread |-> spread]

\* "no similarity data"
NoDataMessage == Narrative("no-data", 0, 0, "", "", 0, "", "")
\* "no valid similarity data"
NoValidDataMessage == Narrative("no-valid-data", 0, 0, "", "", 0, "", "")

\* similarities.filter(val => !isNaN(val) && isFinite(val)), as thousandths
validSimilarities(similarities) ==
    LET kept == SelectSeq(similarities, IsNum)
    IN [k \in 1..Len(kept) |-> kept[k].v]

\* the band of the similarity paragraph: avgSimilarity > 0.8, > 0.6, > 0.4, else
BandOf(sum, n) ==
    IF sum > 800 * n THEN "high"
    ELSE IF sum > 600 * n THEN "moderate"
    ELSE IF sum > 400 * n THEN "partial"
    ELSE "low"

\* revisions A and B: the sub-sentence on the standard deviation, per band
SpreadOf(band, std) ==
    LET limit == CASE band = "high" -> 100
                   [] band = "moderate" -> 150
                   [] band = "partial" -> 200
                   [] band = "low" -> 100
    IN IF StdBelow(std, limit) THEN "narrow" ELSE "variable"

\* revisions A and B
interpretSimilarityTrendAB(similarities) ==
    IF Len(similarities) = 0 THEN NoDataMessage
    ELSE LET valid == validSimilarities(similarities)
             sum == SeqSum(valid)
             n == Len(valid)
             stdDeviation == calculateStandardDeviation(valid)
         IN IF n = 0 THEN NoValidDataMessage
            ELSE Narrative("report", RoundDiv(sum, n * 10), StdFixed2(stdDeviation),
                           "", "", 0, BandOf(sum, n), SpreadOf(BandOf(sum, n), stdDeviation))

\* userScores.indexOf(maxUserScore): the first index holding the maximum
IndexOfMax(scores) ==
    LET m == Max({scores[i].v : i \in Idx})
    IN Min({i \in Idx : scores[i].v = m})

\* an interest paragraph that takes the focused branch from a range of 50 on
InterestOf_RangeFromFifty(scores) ==
    LET total == SumOver([i \in Idx |-> scores[i].v], Idx)
        maxUserScore == Max({scores[i].v : i \in Idx})
        minUserScore == Min({scores[i].v : i \in Idx})
        userScoreRange == maxUserScore - minUserScore
    IN IF userScoreRange >= 50
       THEN [interest |-> IF total < 30 * NCAT THEN "focused-narrow" ELSE "focused-broad",
             category |-> categories[IndexOfMax(scores)],
             score |-> maxUserScore]
       ELSE [interest |-> IF total > 75 * NCAT THEN "strong"
                          ELSE IF total > 50 * NCAT THEN "medium"
                          ELSE IF total > 25 * NCAT THEN "weak"
                          ELSE "weakest",
             category |-> "", score |-> 0]

\* revision C: the interest paragraph, from the user's raw scores
InterestOf(scores) ==
    LET total == SumOver([i \in Idx |-> scores[i].v], Idx)
        maxUserScore == Max({scores[i].v : i \in Idx})
        minUserScore == Min({scores[i].v : i \in Idx})
        userScoreRange == maxUserScore - minUserScore
    IN IF userScoreRange > 50
       THEN [interest |-> IF total < 30 * NCAT THEN "focused-narrow" ELSE "focused-broad",
             category |-> categories[IndexOfMax(scores)],
             score |-> maxUserScore]
       ELSE [interest |-> IF total > 75 * NCAT THEN "strong"
                          ELSE IF total > 50 * NCAT THEN "medium"
                          ELSE IF total > 25 * NCAT THEN "weak"
                          ELSE "weakest",
             category |-> "", score |-> 0]

\* a summariser without the branch for an empty list
interpretSimilarityTrendC_NoEmptyBranch(similarities, scores) ==
    LET valid == validSimilarities(similarities)
        sum == SeqSum(valid)
        n == Len(valid)
        stdDeviation == calculateStandardDeviation(valid)
        i == InterestOf(scores)
    IN IF n = 0 THEN NoValidDataMessage
       ELSE Narrative("report", RoundDiv(sum, n * 10), StdFixed2(stdDeviation),
                      i.interest, i.category, i.score, BandOf(sum, n), "")

\* revision C: the sub-sentences of the similarity paragraph are elided
interpretSimilarityTrendC(similarities, scores) ==
    IF Len(similarities) = 0 THEN NoDataMessage
    ELSE LET valid == validSimilarities(similarities)
             sum == SeqSum(valid)
             n == Len(valid)
             stdDeviation == calculateStandardDeviation(valid)
             i == InterestOf(scores)
         IN IF n = 0 THEN NoValidDataMessage
            ELSE Narrative("report", RoundDiv(sum, n * 10), StdFixed2(stdDeviation),
                           i.interest, i.category, i.score, BandOf(sum, n), "")

----------------------------------------------------------------------------
(* Recommendation ranker *)

Revisions == {"A", "B", "C"}

\* the values of error: null and the two messages
NoError == "null"
LoadFailed == "load-failed"
ComputeFailed == "compute-failed"

\* jobScores.map(job => ({name, similarity, description}))
Scored(r, scores, jobs) ==
    [k \in 1..Len(jobs) |->
        [name |-> jobs[k].name,
         similarity |-> similarityOf(r, scores, jobs[k].scores),
         description |-> jobs[k].description]]

RECURSIVE InsertDesc(_, _)
\* puts e behind every entry whose similarity is not smaller
InsertDesc(sorted, e) ==
    IF sorted = <<>> THEN <<e>>
    ELSE IF Head(sorted).similarity.v >= e.similarity.v
         THEN <<Head(sorted)>> \o InsertDesc(Tail(sorted), e)
         ELSE <<e>> \o sorted

RECURSIVE StableSortDesc(_)
\* .sort((a, b) => b.similarity - a.similarity) on finite similarities:
\* descending, equal similarities in their original order
StableSortDesc(s) ==
    IF s = <<>> THEN <<>>
    ELSE InsertDesc(StableSortDesc(SubSeq(s, 1, Len(s) - 1)), s[Len(s)])

Reorderings(s) ==
    LET n == Len(s)
        P == {p \in [1..n -> 1..n] : \A i, j \in 1..n : p[i] = p[j] => i = j}
    IN {[k \in 1..n |-> s[p[k]]] : p \in P}

\* the orders .sort may leave: with a NaN similarity the comparator returns NaN
\* and is not a consistent comparator, so the order is implementation-defined
SortOutcomes(s) ==
    IF \E k \in 1..Len(s) : IsNaN(s[k].similarity) THEN Reorderings(s)
    ELSE {StableSortDesc(s)}

\* a threshold taken at sorted index floor(0.8 * N) instead of floor(0.2 * N)
ThresholdOf_AtEighty(sorted) ==
    IF Len(sorted) = 0 THEN Num(0)
    ELSE OrZero(sorted[((Len(sorted) * 4) \div 5) + 1].similarity)

\* results[Math.floor(results.length * 0.2)]?.similarity || 0
ThresholdOf(sorted) ==
    IF Len(sorted) = 0 THEN Num(0)
    ELSE OrZero(sorted[(Len(sorted) \div 5) + 1].similarity)

\* x >= t on numbers: false when either side is NaN
GreaterEq(x, t) == ~IsNaN(x) /\ ~IsNaN(t) /\ x.v >= t.v

Similarities(list) == [k \in 1..Len(list) |-> list[k].similarity]

\* Math.min(...validScores) of normalizeScores throws a RangeError when the
\* scores array of a job is longer than the engine's argument limit
Throws(r, jobs) == r \in {"B", "C"} /\ \E k \in 1..Len(jobs) : jobs[k].long

\* an exception that ends the run without the catch block's setError
Caught_ErrorNotSet ==
    [threw |-> FALSE, results |-> <<>>, returned |-> <<>>,
     narrative |-> Narrative("none", 0, 0, "", "", 0, "", "")]

\* the catch block of calculateRecommendations: return []
Caught ==
    [threw |-> TRUE, results |-> <<>>, returned |-> <<>>,
     narrative |-> Narrative("none", 0, 0, "", "", 0, "", "")]

\* the outcomes of one run of calculateRecommendations: whether scoring threw,
\* the sorted list, the list returned, the narrative set (none when it threw)
calculateRecommendations(r, scores, jobs) ==
    IF Throws(r, jobs) THEN {Caught}
    ELSE
    {[threw |-> FALSE,
      results |-> sorted,
      returned |-> IF r = "A" THEN sorted
                   ELSE SelectSeq(sorted, LAMBDA job : GreaterEq(job.similarity, ThresholdOf(sorted))),
      narrative |-> CASE r = "A" -> interpretSimilarityTrendAB(Similarities(sorted))
                      [] r = "B" -> interpretSimilarityTrendAB(Similarities(
                                       SelectSeq(sorted, LAMBDA job : GreaterEq(job.similarity, ThresholdOf(sorted)))))
                      [] r = "C" -> interpretSimilarityTrendC(Similarities(
                                       SelectSeq(sorted, LAMBDA job : GreaterEq(job.similarity, ThresholdOf(sorted)))), scores)]
     : sorted \in SortOutcomes(Scored(r, scores, jobs))}

----------------------------------------------------------------------------
(* Catalogs *)

MaxJobs == 5

Str == [t |-> "str", v |-> 0]

V6(x) == [i \in Idx |-> Num(x)]
Peak(lo, hi, k) == [i \in Idx |-> Num(IF i = k THEN hi ELSE lo)]
Mask(a, S) == [i \in Idx |-> IF i \in S THEN Null ELSE a[i]]
AllNull == [i \in Idx |-> Null]

\* long: the scores array has more entries than a call can take as arguments
\* (the first six are kept in scores)
Job(name, scores) == [name |-> name, scores |-> scores, description |-> name, long |-> FALSE]
LongJob(name, scores) == [name |-> name, scores |-> scores, description |-> name, long |-> TRUE]

Down == <<Num(80), Num(60), Num(40), Num(20), Num(10), Num(0)>>
Up == <<Num(10), Num(20), Num(30), Num(40), Num(50), Num(60)>>

CatalogVaried ==
    <<Job("v1", Up),
      Job("v2", Down),
      Job("v3", <<Num(0), Num(100), Num(0), Num(100), Num(0), Num(100)>>),
      Job("v4", V6(50)),
      Job("v5", <<Num(90), Num(10), Num(10), Num(10), Num(10), Num(10)>>),
      Job("v6", <<Num(20), Num(80), Num(30), Num(70), Num(40), Num(60)>>),
      Job("v7", <<Num(100), Num(0), Num(50), Num(0), Num(100), Num(0)>>)>>

CatalogTies ==
    <<Job("t1", Down), Job("t2", Up), Job("t3", Down), Job("t4", Up),
      Job("t5", Down), Job("t6", V6(50)), Job("t7", Up)>>

CatalogAbsent ==
    <<Job("n1", Down), Job("n2", AllNull), Job("n3", Up), Job("n4", Mask(Up, {1, 2}))>>

CatalogDirty ==
    <<Job("d1", <<Num(1000), Num(900), Num(800), Num(700), Num(600), Num(500)>>),
      Job("d2", <<Str, Num(50), Str, Num(70), Null, Num(90)>>),
      Job("d3", <<Num(-50), Num(0), Num(50), Num(100), Num(150), Num(200)>>),
      Job("d4", <<Str, Str, Str, Str, Str, Str>>)>>

CatalogHuge ==
    <<Job("h1", AllHuge), Job("h2", Up), Job("h3", Down)>>

CatalogLong ==
    <<Job("l1", Up), LongJob("l2", Down), Job("l3", Down)>>

BaseCatalogs == {CatalogVaried, CatalogTies, CatalogAbsent, CatalogDirty,
                 CatalogHuge, CatalogLong}

Prefixes(c) == {SubSeq(c, 1, n) : n \in 0..Min({Len(c), MaxJobs})}

\* the JSON arrays the catalog resource may hold
Bodies == UNION {Prefixes(c) : c \in BaseCatalogs}

\* loadJobScores: a score that is not a number becomes null
Validated(data) ==
    [k \in 1..Len(data) |->
        [data[k] EXCEPT !.scores = [i \in Idx |-> IF data[k].scores[i].t \in {"num", "huge"}
                                                  THEN data[k].scores[i] ELSE Null]]]

----------------------------------------------------------------------------
(* Function harness: Init draws the arguments, one action per function *)

UserLevels == {0, 50, 100}

UserVectors ==
    {V6(x) : x \in UserLevels}
    \cup {Peak(lo, hi, k) : lo \in {0, 10, 50}, hi \in {90, 100}, k \in Idx}
    \cup {Peak(100, 0, k) : k \in {1, 6}}
    \cup {[i \in Idx |-> Num(IF i <= 3 THEN 50 ELSE 0)],
          [i \in Idx |-> Num(IF i % 2 = 0 THEN 100 ELSE 50)],
          <<Num(90), Num(10), Num(10), Num(10), Num(10), Num(10)>>,
          <<Num(80), Num(20), Num(20), Num(20), Num(20), Num(20)>>,
          Up}

\* lastLoad before any load has settled
NoLoad == [http |-> "none", result |-> "none"]

IdleSession ==
    /\ rev = "C"
    /\ userScores = V6(50)
    /\ inputValues = [i \in Idx |-> "50"]
    /\ jobScores = <<>>
    /\ recommendations = <<>>
    /\ error = "null"
    /\ trendInterpretation = NoDataMessage
    /\ isLoading = TRUE
    /\ results = <<>>
    /\ mounted = FALSE
    /\ inflight = 0
    /\ lastLoad = NoLoad
    /\ loads = 0
    /\ edits = 0

Occupations(a) ==
    {V6(50), V6(0), AllNull, Down,
     <<Num(10), Null, Num(30), Null, Num(70), Num(90)>>,
     <<Num(1000), Num(900), Num(800), Num(700), Num(600), Num(500)>>,
     <<Num(-50), Num(0), Num(50), Num(100), Num(150), Num(200)>>,
     <<Null, Null, Null, Null, Null, Num(40)>>}
    \cup {a, Mask(a, {1}), Mask(a, {6}), Mask(a, {2, 3, 4}), Mask(a, {1, 2, 3, 4, 5})}

SimInit ==
    /\ IdleSession
    /\ argA \in UserVectors
    /\ argB \in Occupations(argA)
    /\ fn = ""
    /\ ret = Num(0)

CallCosine ==
    /\ fn = ""
    /\ fn' = "cosineSimilarity"
    /\ ret' = cosineSimilarity(argA, argB)
    /\ UNCHANGED <<rev, stateVars, ctlVars, argA, argB>>

CallWeightedB ==
    /\ fn = ""
    /\ fn' = "weightedCosineSimilarityB"
    /\ ret' = weightedCosineSimilarityB(argA, argB)
    /\ UNCHANGED <<rev, stateVars, ctlVars, argA, argB>>

CallWeightedC ==
    /\ fn = ""
    /\ fn' = "weightedCosineSimilarityC"
    /\ ret' = weightedCosineSimilarityC(argA, argB)
    /\ UNCHANGED <<rev, stateVars, ctlVars, argA, argB>>

CallCombined ==
    /\ fn = ""
    /\ fn' = "combinedSimilarity"
    /\ ret' = combinedSimilarity(argA, argB)
    /\ UNCHANGED <<rev, stateVars, ctlVars, argA, argB>>

CallNormalizeB ==
    /\ fn = ""
    /\ fn' = "normalizeScoresB"
    /\ ret' = normalizeScoresB(argB)
    /\ UNCHANGED <<rev, stateVars, ctlVars, argA, argB>>

CallNormalizeC ==
    /\ fn = ""
    /\ fn' = "normalizeScoresC"
    /\ ret' = normalizeScoresC(argB)
    /\ UNCHANGED <<rev, stateVars, ctlVars, argA, argB>>

SimNext ==
    \/ CallCosine
    \/ CallWeightedB
    \/ CallWeightedC
    \/ CallCombined
    \/ CallNormalizeB
    \/ CallNormalizeC

SimSpec == SimInit /\ [][SimNext]_vars

----------------------------------------------------------------------------
(* Ranker harness: Init draws the revision, the user vector and the catalog *)

IdleHarness ==
    /\ argA = V6(50)
    /\ argB = V6(50)
    /\ ret = Num(0)

RankInit ==
    /\ rev \in Revisions
    /\ userScores \in UserVectors
    /\ inputValues = [i \in Idx |-> "50"]
    /\ jobScores \in {Validated(c) : c \in Bodies}
    /\ recommendations = <<>>
    /\ error = NoError
    /\ trendInterpretation = NoDataMessage
    /\ isLoading = FALSE
    /\ results = <<>>
    /\ mounted = TRUE
    /\ inflight = 0
    /\ lastLoad = NoLoad
    /\ loads = 1
    /\ edits = 0
    /\ IdleHarness
    /\ fn = ""

\* one recomputation: useMemo runs calculateRecommendations, the effect stores its result
Recalculate ==
    /\ fn = ""
    /\ fn' = "calculateRecommendations"
    /\ \E run \in calculateRecommendations(rev, userScores, jobScores) :
          /\ results' = run.results
          /\ recommendations' = run.returned
          /\ trendInterpretation' = IF run.threw THEN trendInterpretation ELSE run.narrative
          /\ error' = IF run.threw THEN ComputeFailed ELSE error
    /\ UNCHANGED <<rev, userScores, inputValues, jobScores, isLoading,
                   ctlVars, argA, argB, ret>>

RankNext == Recalculate

RankSpec == RankInit /\ [][RankNext]_vars
----------------------------------------------------------------------------
(* Session: the mounted component, its catalog loads and its score fields *)

MaxLoads == 3
MaxEdits == 1


\* the catalogs a session's fetch may return
SessionBodies ==
    {<<>>, SubSeq(CatalogAbsent, 1, 2), SubSeq(CatalogDirty, 1, 3), SubSeq(CatalogVaried, 1, 3),
     SubSeq(CatalogLong, 1, 2)}

\* what a fetch may settle to: a rejection, or a response with a status and a
\* body that is a catalog array or is not one (not JSON, or not an array of jobs)
Responses ==
    {[kind |-> "rejected", ok |-> FALSE, body |-> <<>>]}
    \cup {[kind |-> "array", ok |-> o, body |-> c] : o \in BOOLEAN, c \in SessionBodies}
    \cup {[kind |-> "other", ok |-> o, body |-> <<>>] : o \in BOOLEAN}

\* "200", "non-200", or "rejected" when the fetch promise rejects
Http(response) ==
    IF response.kind = "rejected" THEN "rejected"
    ELSE IF response.ok THEN "200" ELSE "non-200"

\* whether the try block of the load runs to setJobScores
Loads(r, response) ==
    /\ response.kind = "array"
    /\ r = "A" \/ response.ok

\* the texts typed into a score field
Texts == {"", "abc", "-5", "150", "12abc"}

\* value === "" ? 0 : parseFloat(value)
NumericValue(value) ==
    CASE value = "" -> Num(0)
      [] value = "abc" -> NaN
      [] value = "-5" -> Num(-5)
      [] value = "150" -> Num(150)
      [] value = "12abc" -> Num(12)

\* Number.prototype.toString on the scores that can be stored
ToString(n) ==
    CASE n = 0 -> "0"
      [] n = 12 -> "12"
      [] n = 50 -> "50"
      [] n = 100 -> "100"

\* which of the three returns of the render function is taken
View ==
    IF rev # "A" /\ isLoading THEN "loading"
    ELSE IF error # NoError THEN "error"
    ELSE "form"

\* the retry button of the error alert (revisions B and C)
RetryExposed == rev # "A" /\ View = "error"

Init ==
    /\ rev \in Revisions
    /\ userScores = V6(50)
    /\ inputValues = [i \in Idx |-> "50"]
    /\ jobScores = <<>>
    /\ recommendations = <<>>
    /\ error = NoError
    /\ trendInterpretation = NoDataMessage
    /\ isLoading = (rev # "A")
    /\ results = <<>>
    /\ mounted = FALSE
    /\ inflight = 0
    /\ lastLoad = NoLoad
    /\ loads = 0
    /\ edits = 0
    /\ IdleHarness
    /\ fn = ""

\* the re-render after userScores or jobScores changed: useMemo recomputes and
\* the effect stores the list; when scoring threw, the catch block sets error
\* and the narrative is not set
Recompute(scores, jobs) ==
    \E run \in calculateRecommendations(rev, scores, jobs) :
        /\ results' = run.results
        /\ recommendations' = run.returned
        /\ trendInterpretation' = IF run.threw THEN trendInterpretation ELSE run.narrative
        /\ error' = IF run.threw THEN ComputeFailed ELSE error

\* useEffect(() => { loadJobScores() }, []): the effect starts one load, or
\* two when React runs mount effects twice (development strict mode)
Mount ==
    /\ ~mounted
    /\ mounted' = TRUE
    /\ \E n \in {1, 2} :
          /\ inflight' = inflight + n
          /\ loads' = loads + n
    /\ isLoading' = (rev # "A")
    /\ error' = NoError
    /\ UNCHANGED <<rev, userScores, inputValues, jobScores, recommendations,
                   trendInterpretation, results, lastLoad, edits, simVars>>

\* the retry button: loadJobScores again
Retry ==
    /\ RetryExposed
    /\ loads < MaxLoads
    /\ isLoading' = TRUE
    /\ error' = NoError
    /\ inflight' = inflight + 1
    /\ loads' = loads + 1
    /\ UNCHANGED <<rev, userScores, inputValues, jobScores, recommendations,
                   trendInterpretation, results, mounted, lastLoad, edits, simVars>>

\* a fetch settles and the rest of the load runs: setJobScores and a
\* recomputation
LoadSucceeds ==
    /\ inflight > 0
    /\ \E response \in Responses :
          /\ Loads(rev, response)
          /\ jobScores' = Validated(response.body)
          /\ Recompute(userScores, Validated(response.body))
          /\ lastLoad' = [http |-> Http(response), result |-> "ok"]
    /\ isLoading' = FALSE
    /\ inflight' = inflight - 1
    /\ UNCHANGED <<rev, userScores, inputValues, mounted, loads, edits, simVars>>

\* a fetch settles and the load ends in its catch block
LoadFails ==
    /\ inflight > 0
    /\ \E response \in Responses :
          /\ ~Loads(rev, response)
          /\ lastLoad' = [http |-> Http(response), result |-> "failed"]
    /\ error' = LoadFailed
    /\ isLoading' = FALSE
    /\ inflight' = inflight - 1
    /\ UNCHANGED <<rev, userScores, inputValues, jobScores, recommendations,
                   trendInterpretation, results, mounted, loads, edits, simVars>>

\* an onChange that stores 0 for a text that does not parse to a number
handleScoreChange_NoNaNCheck(index, value) ==
    /\ View = "form"
    /\ edits < MaxEdits
    /\ edits' = edits + 1
    /\ inputValues' = [inputValues EXCEPT ![index] = value]
    /\ LET numericValue == OrZero(NumericValue(value))
           clampedValue == Max({0, Min({100, numericValue.v})})
           newScores == [userScores EXCEPT ![index] = Num(clampedValue)]
       IN /\ userScores' = newScores
          /\ Recompute(newScores, jobScores)
    /\ UNCHANGED <<rev, jobScores, isLoading, mounted, inflight, lastLoad,
                   loads, simVars>>

\* onChange of score field index
handleScoreChange(index, value) ==
    /\ View = "form"
    /\ edits < MaxEdits
    /\ edits' = edits + 1
    /\ inputValues' = [inputValues EXCEPT ![index] = value]
    /\ LET numericValue == NumericValue(value)
           clampedValue == Max({0, Min({100, numericValue.v})})
           newScores == [userScores EXCEPT ![index] = Num(clampedValue)]
       IN IF ~IsNaN(numericValue)
          THEN /\ userScores' = newScores
               /\ Recompute(newScores, jobScores)
          ELSE UNCHANGED <<userScores, results, recommendations, trendInterpretation, error>>
    /\ UNCHANGED <<rev, jobScores, isLoading, mounted, inflight, lastLoad,
                   loads, simVars>>

\* onBlur of score field index
onBlur(index) ==
    /\ View = "form"
    /\ inputValues' = [inputValues EXCEPT ![index] = ToString(userScores[index].v)]
    /\ UNCHANGED <<rev, userScores, jobScores, recommendations, error,
                   trendInterpretation, isLoading, results, ctlVars, simVars>>

Next ==
    \/ Mount
    \/ Retry
    \/ LoadSucceeds
    \/ LoadFails
    \/ \E index \in Idx, value \in Texts : handleScoreChange(index, value)
    \/ \E index \in Idx : onBlur(index)

Spec == Init /\ [][Next]_vars
----------------------------------------------------------------------------
(* Properties of the similarity engine and the normaliser (SimSpec) *)

SimFns == {"cosineSimilarity", "weightedCosineSimilarityB",
           "weightedCosineSimilarityC", "combinedSimilarity"}

InUnitRange(x) == IsNum(x) /\ -SCALE <= x.v /\ x.v <= SCALE

\* C1: an occupation whose six scores are all absent has similarity exactly 0
\* under every policy, never NaN.
C1_AllAbsentIsZero ==
    (fn \in SimFns /\ argB = AllNull) => ret = Num(0)

\* C4: the plain cosine and the weighted cosine (both weight profiles) lie in
\* [-1, 1].
C4_CosineInUnitRange ==
    fn \in {"cosineSimilarity", "weightedCosineSimilarityB", "weightedCosineSimilarityC"}
        => InUnitRange(ret)

\* C5: the hybrid similarity lies in [-1, 1] for every occupation vector the
\* load accepts (stated here for the occupations with a present score; the
\* all-absent occupation is the case of C1).
C5_HybridInUnitRange ==
    (fn = "combinedSimilarity" /\ argB # AllNull) => InUnitRange(ret)

\* C6: the similarity of a user vector and an occupation with the same six
\* scores is 1.0 under every policy.
C6_SelfSimilarityIsOne ==
    (fn \in SimFns /\ argB = argA) => ret = Num(SCALE)

\* the indices a policy's sums run over
SummedIndices(name, b) ==
    CASE name = "cosineSimilarity" -> validPairs(b)
      [] name = "weightedCosineSimilarityB" -> validPairsB(b)
      [] name = "weightedCosineSimilarityC" -> validPairsC(b)
      [] name = "combinedSimilarity" -> validPairsC(b) \cup validPairs(b)

\* C7: every policy sums over exactly the indices where the occupation score
\* is present, so its value is the one computed with the absent indices left
\* out (an absent score is not scored as 0).
C7_OnlyPresentIndices ==
    /\ fn \in SimFns => SummedIndices(fn, argB) = {i \in Idx : argB[i] # Null}
    /\ fn = "weightedCosineSimilarityB"
          => ret = weightedCosineOverB(argA, argB, {i \in Idx : argB[i] # Null})
    /\ fn = "weightedCosineSimilarityC"
          => ret = weightedCosineOverC(argA, argB, {i \in Idx : argB[i] # Null})

\* C8: normalizeScores returns six numbers in [0, 1]; when the present values
\* differ the minimum maps to 0, the maximum to 1 and an absent entry to 0;
\* when they are all equal every entry is 1.0 and none is NaN (stated for
\* vectors with a present value).
C8_NormalizedRange ==
    (fn \in {"normalizeScoresB", "normalizeScoresC"} /\ argB # AllNull) =>
        LET valid == validScores(argB)
        IN \A i \in Idx :
              /\ IsNum(ret[i]) /\ 0 <= ret[i].v /\ ret[i].v <= SCALE
              /\ IF Min(valid) = Max(valid) THEN ret[i].v = SCALE
                 ELSE /\ argB[i] = Null => ret[i].v = 0
                      /\ (argB[i] # Null /\ argB[i].v = Min(valid)) => ret[i].v = 0
                      /\ (argB[i] # Null /\ argB[i].v = Max(valid)) => ret[i].v = SCALE

----------------------------------------------------------------------------
(* Properties of the ranker (RankSpec) *)

Ranked == fn = "calculateRecommendations"
Thresholding == rev \in {"B", "C"}

\* the entries of list whose similarity is >= the similarity x
AtLeast(list, x) == SelectSeq(list, LAMBDA job : GreaterEq(job.similarity, x))

\* C2: the filtered list is exactly the entries whose similarity is >= the
\* similarity of the entry at sorted index floor(0.2 * N); it is empty for N = 0.
C2_FilterIsThresholdCut ==
    (Ranked /\ Thresholding) =>
        IF Len(results) = 0 THEN recommendations = <<>>
        ELSE recommendations =
                AtLeast(results, results[(Len(results) \div 5) + 1].similarity)

DistinctFinite(list) ==
    /\ \A k \in 1..Len(list) : IsNum(list[k].similarity)
    /\ \A i, j \in 1..Len(list) : i # j => list[i].similarity # list[j].similarity

\* C3 as stated: with N >= 1 pairwise distinct finite similarities at least
\* N - ceil(0.2 * N) entries survive the filter (the top ~80% is kept).
C3_KeepsTopEighty ==
    (Ranked /\ Thresholding /\ Len(results) >= 1 /\ DistinctFinite(results)) =>
        Len(recommendations) >= Len(results) - ((Len(results) + 4) \div 5)

\* C3 amended: with N >= 1 pairwise distinct finite similarities exactly the
\* floor(0.2 * N) + 1 highest-ranked entries survive the filter (the top ~20%).
C3_KeepsTopFifth ==
    (Ranked /\ Thresholding /\ Len(results) >= 1 /\ DistinctFinite(results)) =>
        recommendations = SubSeq(results, 1, (Len(results) \div 5) + 1)

C3_Witness ==
    /\ Ranked /\ Thresholding
    /\ Len(results) = 5 /\ DistinctFinite(results)
    /\ Len(recommendations) = 2

\* the position of a job in the catalog
CatalogIndex(name) == CHOOSE k \in 1..Len(jobScores) : jobScores[k].name = name

\* non-increasing similarity, equal similarities in catalog order
SortedStable(list) ==
    \A i, j \in 1..Len(list) :
        i < j => /\ GreaterEq(list[i].similarity, list[j].similarity)
                 /\ list[i].similarity = list[j].similarity
                       => CatalogIndex(list[i].name) < CatalogIndex(list[j].name)

\* C9: the sorted list and the list returned are in non-increasing order of
\* similarity, entries of equal similarity in catalog order.
C9_SortedStable ==
    Ranked => SortedStable(results) /\ SortedStable(recommendations)

----------------------------------------------------------------------------
(* Properties of the session (Spec) *)

\* C10: when a load whose response is not 200, or whose fetch rejects, has
\* completed, error is set, isLoading is false, the recommendation list is
\* empty and the retry control is exposed.
C10_FailedLoadEndsInErrorState ==
    [][(inflight' = inflight - 1 /\ lastLoad'.http \in {"non-200", "rejected"})
          => /\ error' # NoError
             /\ ~isLoading'
             /\ recommendations' = <<>>
             /\ RetryExposed']_vars

\* six numbers, each in [0, 100]
ScoresInRange ==
    /\ DOMAIN userScores = Idx
    /\ \A i \in Idx : IsNum(userScores[i]) /\ 0 <= userScores[i].v /\ userScores[i].v <= 100

\* what a typed text stores over the score old: nothing when it does not
\* parse to a number, else the number brought to the nearest bound of [0, 100]
StoredFor(text, old) ==
    CASE text = "" -> 0
      [] text = "abc" -> old
      [] text = "-5" -> 0
      [] text = "150" -> 100
      [] text = "12abc" -> 12

\* C11: userScores always has six numbers in [0, 100]; an edit whose text does
\* not parse leaves userScores unchanged, and an out-of-range number is stored
\* clamped to the nearest bound.
C11_UserScoresClamped ==
    /\ []ScoresInRange
    /\ [][edits' = edits + 1 =>
              \E index \in Idx :
                  /\ \A i \in Idx \ {index} : inputValues'[i] = inputValues[i]
                  /\ userScores' = [userScores EXCEPT
                         ![index] = Num(StoredFor(inputValues'[index], userScores[index].v))]]_vars

C11_Witness ==
    \E index \in Idx :
        /\ edits = 1
        /\ inputValues[index] = "150"
        /\ userScores[index] = Num(100)

\* a step in which one load settles
LoadSettles == inflight' = inflight - 1

\* C12: in the revisions with a retry control, retry clears the error and sets
\* isLoading before the fetch resolves, every load finishes with isLoading
\* false, and a load whose fetch returned a well-formed catalog ends with
\* error = null and the recommendations recomputed from the catalog.
C12_RecoversFromError ==
    [][Thresholding =>
          /\ (mounted /\ loads' = loads + 1) => (error' = NoError /\ isLoading')
          /\ LoadSettles => ~isLoading'
          /\ (LoadSettles /\ lastLoad'.result = "ok" /\ ~Throws(rev, jobScores'))
                => /\ error' = NoError
                   /\ \E run \in calculateRecommendations(rev, userScores', jobScores') :
                          recommendations' = run.returned]_vars

\* C13: when scoring a catalog entry throws during the recomputation that
\* follows a load, the exception is caught: the recommendation list becomes
\* empty and error becomes the computation-error message.
C13_ScoringExceptionCaught ==
    [][(LoadSettles /\ lastLoad'.result = "ok" /\ Throws(rev, jobScores'))
          => (recommendations' = <<>> /\ error' = ComputeFailed)]_vars

C13_Witness ==
    /\ lastLoad.result = "ok"
    /\ Throws(rev, jobScores)
    /\ error = ComputeFailed
    /\ recommendations = <<>>

\* C14: with an empty catalog the ranker returns an empty list and the
\* narrative is the fixed "no data" message, for every user vector.
C14_EmptyCatalogNoData ==
    (Ranked /\ jobScores = <<>>) =>
        /\ results = <<>>
        /\ recommendations = <<>>
        /\ trendInterpretation = NoDataMessage
        /\ error = NoError

C14_Witness ==
    /\ Ranked /\ jobScores = <<>>
    /\ rev = "C" /\ userScores # V6(50)
    /\ trendInterpretation = NoDataMessage

\* the similarities the ranker handed to the summariser, in thousandths
Summarised ==
    LET list == IF rev = "A" THEN results ELSE recommendations
    IN [k \in 1..Len(list) |-> list[k].similarity.v]

FiniteNonEmpty ==
    LET list == IF rev = "A" THEN results ELSE recommendations
    IN Len(list) > 0 /\ \A k \in 1..Len(list) : IsNum(list[k].similarity)

\* the population standard deviation of s is below t thousandths
DeviationBelow(s, t) ==
    Len(s) * SeqSum([k \in 1..Len(s) |-> s[k] * s[k]]) - SeqSum(s) * SeqSum(s)
        < (t * Len(s)) * (t * Len(s))

\* C15: for a non-empty list of finite similarities the narrative has the band
\* sentence chosen by the mean (> 0.8, else > 0.6, else > 0.4, else low) and
\* the sub-sentence chosen by the standard deviation against the band's limit
\* (0.1, 0.15, 0.2, 0.1), in every revision.
C15_BandAndSpread ==
    (Ranked /\ FiniteNonEmpty) =>
        LET s == Summarised
            mean1000 == SeqSum(s)
            n == Len(s)
            band == IF mean1000 > 800 * n THEN "high"
                    ELSE IF mean1000 > 600 * n THEN "moderate"
                    ELSE IF mean1000 > 400 * n THEN "partial"
                    ELSE "low"
            limit == CASE band = "high" -> 100
                       [] band = "moderate" -> 150
                       [] band = "partial" -> 200
                       [] band = "low" -> 100
        IN /\ trendInterpretation.kind = "report"
           /\ trendInterpretation.band = band
           /\ trendInterpretation.spread = IF DeviationBelow(s, limit) THEN "narrow" ELSE "variable"

\* the same property in the two revisions whose summariser takes the
\* similarities only
C15_BandAndSpreadAB == rev \in {"A", "B"} => C15_BandAndSpread

\* C16: in the revision whose summariser takes the user's scores, for a
\* non-empty list of finite similarities the interest paragraph has one
\* advisory: with max - min > 50 it names the first category holding the
\* maximum, with that score, and the narrow-focus sentence iff the mean is
\* < 30, else the broader-focus one; with max - min <= 50 it has the sentence
\* of the band of the mean (> 75, else > 50, else > 25, else lowest).
C16_InterestAdvisory ==
    (Ranked /\ rev = "C" /\ FiniteNonEmpty) =>
        LET score(i) == userScores[i].v
            highest == CHOOSE i \in Idx : \A j \in Idx : score(i) >= score(j)
            lowest == CHOOSE i \in Idx : \A j \in Idx : score(i) <= score(j)
            first == CHOOSE i \in Idx :
                        /\ score(i) = score(highest)
                        /\ \A j \in 1..(i - 1) : score(j) < score(highest)
            sum == score(1) + score(2) + score(3) + score(4) + score(5) + score(6)
        IN /\ trendInterpretation.kind = "report"
           /\ IF score(highest) - score(lowest) > 50
              THEN /\ trendInterpretation.category = categories[first]
                   /\ trendInterpretation.score = score(highest)
                   /\ trendInterpretation.interest =
                         IF sum < 180 THEN "focused-narrow" ELSE "focused-broad"
              ELSE /\ trendInterpretation.category = ""
                   /\ trendInterpretation.interest =
                         IF sum > 450 THEN "strong"
                         ELSE IF sum > 300 THEN "medium"
                         ELSE IF sum > 150 THEN "weak"
                         ELSE "weakest"

C16_Witness ==
    /\ Ranked /\ rev = "C" /\ FiniteNonEmpty
    /\ userScores = Peak(100, 0, 1)
    /\ trendInterpretation.interest = "focused-broad"
    /\ trendInterpretation.category = "investigative"

\* C17: catalog loads are last-write-wins: isLoading is never false while a
\* fetch is in flight, and once every load has completed error is non-null
\* iff the load that completed last failed (stated for catalogs whose scoring
\* does not throw, in the revisions with loadJobScores).
C17_LastWriteWins ==
    Thresholding =>
        /\ inflight > 0 => isLoading
        /\ (inflight = 0 /\ lastLoad # NoLoad /\ ~Throws(rev, jobScores))
              => (error # NoError <=> lastLoad.result = "failed")

\* C18: in the thresholding revisions every similarity handed to the
\* summariser and shown in the list is a finite number, and the ranker never
\* produces the "no valid similarity data" message.
C18_SummarisedAreFinite ==
    (Ranked /\ Thresholding) =>
        /\ \A k \in 1..Len(recommendations) : IsNum(recommendations[k].similarity)
        /\ trendInterpretation # NoValidDataMessage

\* the same property in the revision with the weighted cosine only
C18_SummarisedAreFiniteB == rev = "B" => C18_SummarisedAreFinite
====
